---- MODULE Spec2Model ----
(***************************************************************************)
(* A model of the tududi front-end views: the Projects list view, the      *)
(* ProjectDetails view, the NewTask input and the ProjectModal form.       *)
(*                                                                         *)
(* Conventions.  A JavaScript value that may be undefined is modelled as   *)
(* the set of its values: {} when it is undefined or missing, {v} when it  *)
(* is v.  A number that may be NaN is a record [isNaN, value].             *)
(***************************************************************************)
EXTENDS Integers, Sequences, FiniteSets, Bags, TLC

\* ------------------------------------------------------------------ bounds
MaxCount == 2   \* largest task count per status in a task-status record
MaxNav == 1     \* route changes of ProjectDetails
MaxOps == 2     \* task operations started in ProjectDetails
MaxParams == 3  \* pairs in the query string the list view opens on
MaxNameLen == 2 \* characters in a project name or a search query
MaxProjects == 2 \* projects in the fetched list
MaxActs == 3     \* edits, submits, closes and confirmed deletions in the list view
MaxFetchNav == 2 \* route changes of ProjectDetails while its fetches are followed
MaxHostActs == 3 \* edits, submits and dismissals of the modal of ProjectDetails

\* ------------------------------------------------------------ JS helpers
Undefined == {}
Some(v) == {v}
Get(o) == CHOOSE v \in o : TRUE

\* `x || 0` on a count that may be missing.
OrZero(o) == IF o = Undefined THEN 0 ELSE Get(o)

\* `!x` on a number that may be undefined: undefined and 0 are falsy.
Falsy(o) == o = Undefined \/ o = Some(0)

Number(n) == [isNaN |-> FALSE, value |-> n]
NaN == [isNaN |-> TRUE, value |-> 0]

\* Math.round of the quotient 100 * n / d, d > 0: round half up.
MathRound100(n, d) == (200 * n + d) \div (2 * d)

VARIABLES
    \* Projects (list view): completion bars
    taskStatusCounts,  \* Record<number, any>, project id -> counts
    pctProject,        \* the project id of the last completion bar rendered
    pctResult,         \* what getCompletionPercentage returned for it
    \* ProjectDetails: the fetch effect and the task handlers
    routeId,           \* useParams().id
    fetches,           \* fetchProject calls in flight: a bag of route ids
    project,           \* useState<Project>(): undefined or a project
    tasks,             \* useState<Task[]>([])
    loading,           \* useState(true)
    error,             \* useState<string | null>(null)
    creates,           \* handleTaskCreate calls awaiting POST /api/task (a bag)
    updates,           \* handleTaskUpdate calls awaiting updateTask (a bag)
    deletes,           \* handleTaskDelete calls awaiting deleteTask (a bag)
    serverTasks,       \* the tasks the backend holds
    nextTaskId,        \* the id the backend gives the next task
    \* NewTask
    taskName,          \* useState<string>('')
    toasts,            \* the toasts NewTask has shown, each with what happened
    \* history
    opCount,           \* task operations started
    navCount,          \* route changes
    nFailed,           \* task operations that failed or were refused
    settled,           \* the fetchProject calls that have settled, in order
    \* Projects (list view): the filters kept in the query string
    searchParams,      \* useSearchParams(): the pairs of the query string, in order
    lastFilterChange,  \* history: the last filter change and the pairs before it
    \* Projects (list view): search and grouping
    projects,          \* useFetchProjects().projects
    searchQuery,       \* useState<string>("")
    groupedProjects,   \* what the last render computed (lines 120-150)
    \* Projects (list view): the dialogs, and the ProjectModal it mounts
    isProjectModalOpen,   \* useState<boolean>(false)
    projectToEdit,        \* useState<Project | null>(null)
    projectToDelete,      \* useState<Project | null>(null)
    isConfirmDialogOpen,  \* useState<boolean>(false)
    activeDropdown,       \* useState<number | null>(null)
    modal,                \* the mounted ProjectModal: its formData and isClosing
    closeTimers,          \* pending setTimeout callbacks of handleClose (a bag)
    saves,                \* handleSaveProject calls awaiting the backend (a bag)
    deleting,             \* handleDeleteProject calls awaiting the backend (a bag)
    failures,             \* history: each failed mutation and what became of it
    actCount,             \* history: edits, submits, closes and confirmed deletions
    \* ProjectDetails: the ProjectModal it keeps mounted
    isModalOpen,          \* useState(false)
    formData,             \* ProjectModal: useState<Project>(project || {...})
    isClosing,            \* ProjectModal: useState(false)
    hostTimers,           \* pending setTimeout callbacks of handleClose (a bag)
    submits,              \* history: each handleSaveProject call and its state
    closures,             \* history: what closed the modal each time it closed
    hostActs              \* history: edits, submits and dismissals

pctVars == <<taskStatusCounts, pctProject, pctResult>>
filterVars == <<searchParams, lastFilterChange>>
groupVars == <<searchQuery, groupedProjects>>
listVars == <<isProjectModalOpen, projectToEdit, projectToDelete, isConfirmDialogOpen,
              activeDropdown, modal, closeTimers, saves, deleting, failures,
              actCount>>
detailVars == <<routeId, fetches, project, tasks, loading, error, creates, updates,
                deletes, serverTasks, nextTaskId, taskName, toasts, opCount,
                navCount, nFailed>>

hostVars == <<isModalOpen, formData, isClosing, hostTimers, submits, closures, hostActs>>

vars == <<pctVars, detailVars, settled, filterVars, projects, groupVars, listVars,
          hostVars>>

exceptPct == <<detailVars, settled, filterVars, projects, groupVars, listVars, hostVars>>
exceptFetch == <<pctVars, filterVars, projects, groupVars, listVars, hostVars>>
exceptDetail == <<exceptFetch, settled>>
exceptFilter == <<pctVars, detailVars, settled, projects, groupVars, listVars, hostVars>>
exceptGroup == <<pctVars, detailVars, settled, filterVars, listVars, hostVars>>
exceptList == <<pctVars, detailVars, settled, filterVars, groupVars, hostVars>>
exceptHost == <<pctVars, settled, filterVars, projects, groupVars, listVars>>

\* ===================================================== Projects: completion
CountedIds == {1}
OptCount == {Undefined} \cup {Some(n) : n \in 0..MaxCount}
StatusCounts == [done : OptCount, not_started : OptCount, in_progress : OptCount]
\* the ids a project card may carry: none, 0, or a server id
CardIds == {Undefined, Some(0), Some(1), Some(2)}

\* taskStatusCounts[projectId] || {}
CountsOf(counts, id) ==
    IF id \in DOMAIN counts
    THEN counts[id]
    ELSE [done |-> Undefined, not_started |-> Undefined, in_progress |-> Undefined]

getCompletionPercentage(counts, projectId) ==
    IF Falsy(projectId) THEN Number(0)
    ELSE LET taskStatus == CountsOf(counts, Get(projectId))
             totalTasks == OrZero(taskStatus.done) + OrZero(taskStatus.not_started)
                             + OrZero(taskStatus.in_progress)
         IN  IF totalTasks = 0 THEN Number(0)
             ELSE IF taskStatus.done = Undefined
                  THEN NaN   \* undefined / totalTasks is NaN, Math.round(NaN) is NaN
                  ELSE Number(MathRound100(Get(taskStatus.done), totalTasks))

PctIdle ==
    /\ taskStatusCounts = <<>>
    /\ pctProject = Undefined
    /\ pctResult = Number(0)

PctInit ==
    /\ taskStatusCounts \in UNION {[ids -> StatusCounts] : ids \in SUBSET CountedIds}
    /\ pctProject = Undefined
    /\ pctResult = Number(0)

\* the effect of lines 52-54: the fetched counts replace the local ones, and
\* the card on screen is rendered again with them
SetTaskStatusCounts ==
    \E fetched \in UNION {[ids -> StatusCounts] : ids \in SUBSET CountedIds} :
        /\ taskStatusCounts' = fetched
        /\ pctResult' = getCompletionPercentage(fetched, pctProject)
        /\ UNCHANGED pctProject

\* a project card renders its completion bar
RenderCompletion ==
    \E projectId \in CardIds :
        /\ pctProject' = projectId
        /\ pctResult' = getCompletionPercentage(taskStatusCounts, projectId)
        /\ UNCHANGED taskStatusCounts

\* ============================================ ProjectDetails and NewTask
RouteIds == {1, 2}
Statuses == {"not_started", "done"}
\* what the input of NewTask may hold; Trim is String.prototype.trim on it
TaskNames == {"", "  ", "task"}
Trim(name) == IF name = "  " THEN "" ELSE name

\* the answers to a fetch: a 2xx with a JSON body, a non-2xx with a JSON body,
\* a body response.json() cannot parse, a network rejection
Answers == {"ok", "nonok", "badjson", "reject"}

\* the ids of a sequence of tasks, and a set of server tasks as the array the
\* backend sends (by id)
RECURSIVE ById(_)
ById(S) ==
    IF S = {} THEN <<>>
    ELSE LET t == CHOOSE x \in S : \A y \in S : x.id <= y.id
         IN  <<[id |-> Some(t.id), status |-> t.status]>> \o ById(S \ {t})

TasksOfProject(server, pid) == {t \in server : t.project_id = pid}

\* lines 494-510: what ProjectDetails renders
View == IF loading THEN "loading" ELSE IF error # Undefined THEN "error" ELSE "project"

\* `!project?.id`
ProjectIdMissing(p) == p = Undefined \/ Falsy(Get(p).id)

DetailIdle ==
    /\ routeId = 1
    /\ fetches = EmptyBag
    /\ project = Undefined
    /\ tasks = <<>>
    /\ loading = TRUE
    /\ error = Undefined
    /\ creates = EmptyBag
    /\ updates = EmptyBag
    /\ deletes = EmptyBag
    /\ serverTasks = {}
    /\ nextTaskId = 1
    /\ taskName = ""
    /\ toasts = {}
    /\ opCount = 0
    /\ navCount = 0
    /\ nFailed = 0
    /\ settled = <<>>

\* the component mounts on /project/:id and its effect starts the first fetch
DetailInit ==
    /\ routeId \in RouteIds
    /\ fetches = SetToBag({routeId})
    /\ project = Undefined
    /\ tasks = <<>>
    /\ loading = TRUE
    /\ error = Undefined
    /\ creates = EmptyBag
    /\ updates = EmptyBag
    /\ deletes = EmptyBag
    /\ serverTasks = {[id |-> 1, status |-> "not_started", project_id |-> 1]}
    /\ nextTaskId = 2
    /\ taskName = ""
    /\ toasts = {}
    /\ opCount = 0
    /\ navCount = 0
    /\ nFailed = 0
    /\ settled = <<>>

\* the route id changes: the same component renders again and the effect of
\* lines 380-402 runs for the new id; no state is reset
RouteChangeWithin(bound) ==
    \E id \in RouteIds \ {routeId} :
        /\ navCount < bound
        /\ navCount' = navCount + 1
        /\ routeId' = id
        /\ fetches' = fetches (+) SetToBag({id})
        /\ UNCHANGED <<project, tasks, loading, error, creates, updates, deletes,
                       serverTasks, nextTaskId, taskName, toasts, opCount, nFailed>>

RouteChange == RouteChangeWithin(MaxNav)

\* the message of the Error the catch of fetchProject receives
FetchErrorMessage(answer) ==
    CASE answer = "nonok" -> "Failed to fetch project."
      [] answer = "badjson" -> "Unexpected token < in JSON"
      [] OTHER -> "Failed to fetch"

\* the body of a 2xx answer to GET /api/project/:id
FetchedProject(id, hasId) == [id |-> IF hasId THEN Some(id) ELSE Undefined]
FetchedTasks(id) == ById(TasksOfProject(serverTasks, id))

\* fetchProject, lines 381-399, from the answer on
FetchSettlesWith(id, answer, hasId) ==
    /\ fetches' = fetches (-) SetToBag({id})
    /\ IF answer = "ok"
       THEN /\ project' = Some(FetchedProject(id, hasId))
            /\ tasks' = FetchedTasks(id)
            /\ error' = error
       ELSE /\ hasId
            /\ error' = Some(FetchErrorMessage(answer))
            /\ UNCHANGED <<project, tasks>>
    /\ loading' = FALSE
    /\ UNCHANGED <<routeId, creates, updates, deletes, serverTasks, nextTaskId,
                   taskName, toasts, opCount, navCount, nFailed>>

FetchSettles ==
    \E id \in BagToSet(fetches), answer \in Answers, hasId \in BOOLEAN :
        FetchSettlesWith(id, answer, hasId)

\* the route changes and the fetches settle, each settlement written down
Navigate == RouteChangeWithin(MaxFetchNav)

RecordedFetchSettles ==
    \E id \in BagToSet(fetches), answer \in Answers, hasId \in BOOLEAN :
        /\ FetchSettlesWith(id, answer, hasId)
        /\ settled' = Append(settled, [id |-> id, answer |-> answer, hasId |-> hasId])

\* --- handleTaskCreate, lines 404-435
\* what NewTask (lines 559-565) and TaskList hand to handleTaskCreate
NewTaskData == [status |-> "not_started", project_id |-> Undefined]
TaskListData == [status : Statuses, project_id : {Undefined} \cup {Some(i) : i \in RouteIds}]

\* a payload whose own project_id wins: { project_id: project.id, ...taskData }
taskPayloadKeepsGiven(taskData, proj) ==
    IF taskData.project_id = Undefined
    THEN [taskData EXCEPT !.project_id = Get(proj).id]
    ELSE taskData

\* { ...taskData, project_id: project.id }
taskPayload(taskData, proj) == [taskData EXCEPT !.project_id = Get(proj).id]

\* a handler that appends before it has looked at response.ok
tasksAfterCreateUnchecked(current, closureTasks, answer, newTask) ==
    Append(closureTasks, newTask)

\* the task list once POST /api/task has settled: setTasks([...tasks, newTask])
\* with the `tasks` of the render that called the handler, on a 2xx only
tasksAfterCreate(current, closureTasks, answer, newTask) ==
    IF answer = "ok" THEN Append(closureTasks, newTask) ELSE current

\* NewTask.handleKeyDown after `await onTaskCreate(...)`: the promise of
\* handleTaskCreate resolved (it never rejects: lines 432-434 catch everything)
toastAfterCreate(rejected) == IF rejected THEN "error" ELSE "success"

\* handleTaskCreate up to the fetch; `via` is the caller
StartCreate(taskData, via) ==
    /\ View = "project"
    /\ opCount < MaxOps
    /\ opCount' = opCount + 1
    /\ IF ProjectIdMissing(project)
       THEN \* line 405-408: logs and returns, the promise resolves
            /\ nFailed' = nFailed + 1
            /\ UNCHANGED creates
            /\ IF via = "NewTask"
               THEN /\ taskName' = ""
                    /\ toasts' = toasts \cup
                                   {[toast |-> toastAfterCreate(FALSE), created |-> FALSE]}
               ELSE UNCHANGED <<taskName, toasts>>
       ELSE /\ creates' = creates (+) SetToBag({[body |-> taskPayload(taskData, project),
                                                   closure |-> tasks, via |-> via,
                                                   given |-> taskData.project_id,
                                                   loaded |-> Get(project).id]})
            /\ UNCHANGED <<nFailed, taskName, toasts>>
    /\ UNCHANGED <<routeId, fetches, project, tasks, loading, error, updates, deletes,
                   serverTasks, nextTaskId, navCount>>

\* NewTask.handleInputChange
HandleInputChange ==
    \E v \in TaskNames :
        /\ View = "project"
        /\ v # taskName
        /\ taskName' = v
        /\ UNCHANGED <<routeId, fetches, project, tasks, loading, error, creates, updates,
                       deletes, serverTasks, nextTaskId, toasts, opCount, navCount,
                       nFailed>>

\* NewTask.handleKeyDown, lines 16-27: Enter on a non-blank name
NewTaskEnter ==
    /\ Trim(taskName) # ""
    /\ StartCreate(NewTaskData, "NewTask")

\* TaskList calls onTaskCreate with its own task data
TaskListCreate == \E taskData \in TaskListData : StartCreate(taskData, "TaskList")

\* POST /api/task settles and handleTaskCreate runs to its end; a NewTask
\* caller then resumes after its await
CreateSettles ==
    \E c \in BagToSet(creates), answer \in Answers :
        /\ creates' = creates (-) SetToBag({c})
        /\ tasks' = tasksAfterCreate(tasks, c.closure, answer,
                                     [id |-> Some(nextTaskId), status |-> c.body.status])
        /\ IF answer = "ok"
           THEN /\ serverTasks' = serverTasks \cup
                      {[id |-> nextTaskId, status |-> c.body.status,
                        project_id |-> Get(c.body.project_id)]}
                /\ nextTaskId' = nextTaskId + 1
                /\ UNCHANGED nFailed
           ELSE /\ nFailed' = nFailed + 1
                /\ UNCHANGED <<serverTasks, nextTaskId>>
        /\ IF c.via = "NewTask"
           THEN /\ taskName' = ""
                /\ toasts' = toasts \cup
                               {[toast |-> toastAfterCreate(FALSE), created |-> answer = "ok"]}
           ELSE UNCHANGED <<taskName, toasts>>
        /\ UNCHANGED <<routeId, fetches, project, loading, error, updates, deletes,
                       opCount, navCount>>

\* --- handleTaskUpdate and handleTaskDelete, lines 437-465
\* useManageTasks is defined outside these components: its updateTask and
\* deleteTask reject when the request fails or the answer is not a 2xx
HookAnswers == {"ok", "nonok", "reject"}
hookRejects(answer) == answer # "ok"

\* the tasks TaskList can hand back: one of the list, or one without an id
Handed == {tasks[i] : i \in DOMAIN tasks} \cup {[id |-> Undefined, status |-> "not_started"]}

StartUpdate ==
    \E t \in Handed, st \in Statuses :
        /\ View = "project"
        /\ opCount < MaxOps
        /\ opCount' = opCount + 1
        /\ IF t.id = Undefined
           THEN /\ nFailed' = nFailed + 1
                /\ UNCHANGED updates
           ELSE /\ updates' = updates (+) SetToBag({[task |-> [t EXCEPT !.status = st]]})
                /\ UNCHANGED nFailed
        /\ UNCHANGED <<routeId, fetches, project, tasks, loading, error, creates, deletes,
                       serverTasks, nextTaskId, taskName, toasts, navCount>>

\* prevTasks.map((task) => task.id === updatedTask.id ? updatedTask : task)
tasksAfterUpdate(prevTasks, updatedTask, rejected) ==
    IF rejected THEN prevTasks
    ELSE [i \in DOMAIN prevTasks |->
            IF prevTasks[i].id = updatedTask.id THEN updatedTask ELSE prevTasks[i]]

\* prevTasks.filter((task) => task.id !== taskId)
tasksAfterDelete(prevTasks, taskId, rejected) ==
    IF rejected THEN prevTasks
    ELSE SelectSeq(prevTasks, LAMBDA task : task.id # taskId)

\* the backend answers 2xx only for a task it holds
ServerAnswers(taskId) ==
    IF \E s \in serverTasks : Some(s.id) = taskId THEN HookAnswers ELSE HookAnswers \ {"ok"}

UpdateSettles ==
    \E u \in BagToSet(updates) :
      \E answer \in ServerAnswers(u.task.id) :
        /\ updates' = updates (-) SetToBag({u})
        /\ tasks' = tasksAfterUpdate(tasks, u.task, hookRejects(answer))
        /\ IF answer = "ok"
           THEN /\ serverTasks' = {IF Some(s.id) = u.task.id
                                   THEN [s EXCEPT !.status = u.task.status] ELSE s
                                   : s \in serverTasks}
                /\ UNCHANGED nFailed
           ELSE /\ nFailed' = nFailed + 1
                /\ UNCHANGED serverTasks
        /\ UNCHANGED <<routeId, fetches, project, loading, error, creates, deletes,
                       nextTaskId, taskName, toasts, opCount, navCount>>

StartDelete ==
    \E t \in Handed :
        /\ View = "project"
        /\ opCount < MaxOps
        /\ opCount' = opCount + 1
        /\ IF t.id = Undefined
           THEN /\ nFailed' = nFailed + 1
                /\ UNCHANGED deletes
           ELSE /\ deletes' = deletes (+) SetToBag({[taskId |-> t.id]})
                /\ UNCHANGED nFailed
        /\ UNCHANGED <<routeId, fetches, project, tasks, loading, error, creates, updates,
                       serverTasks, nextTaskId, taskName, toasts, navCount>>

DeleteSettles ==
    \E d \in BagToSet(deletes) :
      \E answer \in ServerAnswers(d.taskId) :
        /\ deletes' = deletes (-) SetToBag({d})
        /\ tasks' = tasksAfterDelete(tasks, d.taskId, hookRejects(answer))
        /\ IF answer = "ok"
           THEN /\ serverTasks' = {s \in serverTasks : Some(s.id) # d.taskId}
                /\ UNCHANGED nFailed
           ELSE /\ nFailed' = nFailed + 1
                /\ UNCHANGED serverTasks
        /\ UNCHANGED <<routeId, fetches, project, loading, error, creates, updates,
                       nextTaskId, taskName, toasts, opCount, navCount>>

\* ========================================== Projects: the query-string filters
\* URLSearchParams: a list of [key, value] pairs, duplicates allowed
ParamPairs ==
    [key : {"active"}, value : {"true", "false", ""}]
      \cup [key : {"area_id"}, value : {"1", "2"}]
      \cup [key : {"tab"}, value : {"x"}]

RECURSIVE SeqsUpTo(_, _)
SeqsUpTo(S, n) ==
    IF n = 0 THEN {<<>>}
    ELSE LET shorter == SeqsUpTo(S, n - 1)
         IN  shorter \cup {Append(q, x) : q \in shorter, x \in S}

\* URLSearchParams.get: the first value of the key, or null
ParamsGet(params, key) ==
    LET at == {i \in DOMAIN params : params[i].key = key}
    IN  IF at = {} THEN Undefined
        ELSE Some(params[CHOOSE i \in at : \A j \in at : i <= j].value)

\* URLSearchParams.delete: every pair of the key goes
ParamsDelete(params, key) == SelectSeq(params, LAMBDA p : p.key # key)

\* URLSearchParams.append
ParamsAppend(params, key, value) == Append(params, [key |-> key, value |-> value])

\* URLSearchParams.set: the first pair of the key takes the value and the
\* others go; a key that is absent is appended
ParamsSet(params, key, value) ==
    LET at == {i \in DOMAIN params : params[i].key = key}
    IN  IF at = {} THEN Append(params, [key |-> key, value |-> value])
        ELSE LET first == CHOOSE i \in at : \A j \in at : i <= j
                 F[i \in 0..Len(params)] ==
                    IF i = 0 THEN <<>>
                    ELSE IF i = first THEN Append(F[i - 1], [key |-> key, value |-> value])
                    ELSE IF params[i].key = key THEN F[i - 1]
                    ELSE Append(F[i - 1], params[i])
             IN  F[Len(params)]

\* setSearchParams(params) navigates to "?" + params.toString() and the next
\* render parses location.search again: key=value joined by "&"
RECURSIVE ParamsToString(_)
ParamsToString(params) ==
    IF params = <<>> THEN <<>>
    ELSE LET p == <<params[1].key, "=", params[1].value>>
         IN  IF Len(params) = 1 THEN p ELSE p \o <<"&">> \o ParamsToString(Tail(params))

RECURSIVE ParseSearch(_)
ParseSearch(tokens) ==
    IF tokens = <<>> THEN <<>>
    ELSE LET pair == [key |-> tokens[1], value |-> tokens[3]]
         IN  IF Len(tokens) = 3 THEN <<pair>>
             ELSE <<pair>> \o ParseSearch(SubSeq(tokens, 5, Len(tokens)))

setSearchParams(params) == ParseSearch(ParamsToString(params))

\* lines 41-42: what the view reads back
activeFilter(params) ==
    LET v == ParamsGet(params, "active")
    IN  IF v = Undefined \/ v = Some("") THEN "all" ELSE Get(v)
areaFilter(params) ==
    LET v == ParamsGet(params, "area_id")
    IN  IF v = Undefined THEN "" ELSE Get(v)

\* the options of the two selects (lines 177-179 and 196-201)
StatusOptions == {"true", "false", "all"}
AreaOptions == {"", "1", "2"}

FilterIdle ==
    /\ searchParams = <<>>
    /\ lastFilterChange = [filter |-> "none", value |-> "", before |-> <<>>]

\* the view opens on any query string
FilterInit ==
    /\ searchParams \in SeqsUpTo(ParamPairs, MaxParams)
    /\ lastFilterChange = [filter |-> "none", value |-> "", before |-> <<>>]

handleActiveFilterChange ==
    \E newActiveFilter \in StatusOptions :
        /\ searchParams' =
              setSearchParams(IF newActiveFilter = "all"
                              THEN ParamsDelete(searchParams, "active")
                              ELSE ParamsSet(searchParams, "active", newActiveFilter))
        /\ lastFilterChange' = [filter |-> "active", value |-> newActiveFilter,
                                before |-> searchParams]

handleAreaFilterChange ==
    \E newAreaFilter \in AreaOptions :
        /\ searchParams' =
              setSearchParams(IF newAreaFilter = ""
                              THEN ParamsDelete(searchParams, "area_id")
                              ELSE ParamsSet(searchParams, "area_id", newAreaFilter))
        /\ lastFilterChange' = [filter |-> "area_id", value |-> newAreaFilter,
                                before |-> searchParams]

\* ============================================ Projects: search and grouping
\* a string is the sequence of its characters
Chars == {"a", "A", "b"}
toLowerCase(str) == [i \in DOMAIN str |-> IF str[i] = "A" THEN "a" ELSE str[i]]

\* String.prototype.includes
includes(str, part) ==
    \E i \in 0..(Len(str) - Len(part)) : SubSeq(str, i + 1, i + Len(part)) = part

\* project names are not empty (spec section 3); the search box holds anything
ProjectNames == SeqsUpTo(Chars, MaxNameLen) \ {<<>>}
SearchQueries == SeqsUpTo(Chars, MaxNameLen)

\* the names an area may carry: the user's choice
AreaNames == {"Work", "constructor"}
\* the properties every object literal inherits from Object.prototype
ObjectPrototypeKeys == {"constructor", "toString", "valueOf", "hasOwnProperty"}

ProjectCards == [name : ProjectNames, area : {Undefined} \cup {Some(a) : a \in AreaNames}]
\* the fetched list: each project with its own id
FetchedLists ==
    {[i \in DOMAIN cards |-> [id |-> i, name |-> cards[i].name, area |-> cards[i].area]]
       : cards \in SeqsUpTo(ProjectCards, MaxProjects)}

\* lines 120-122
filteredProjects(list, query) ==
    SelectSeq(list, LAMBDA p : includes(toLowerCase(p.name), toLowerCase(query)))

\* line 144
areaNameOf(p) == IF p.area = Undefined THEN "Uncategorized" ELSE Get(p.area)

\* lines 142-150: reduce over an accumulator that starts as {}.  acc is the
\* accumulator's own properties; acc[areaName] also finds what {} inherits,
\* which is truthy and has no push: the callback then throws a TypeError and
\* the render shows nothing.
RECURSIVE reduceGroups(_, _)
reduceGroups(acc, list) ==
    IF list = <<>> THEN [threw |-> FALSE, groups |-> acc]
    ELSE LET head == Head(list)
             areaName == areaNameOf(head)
         IN  IF areaName \in DOMAIN acc
             THEN reduceGroups([acc EXCEPT ![areaName] = Append(@, head)], Tail(list))
             ELSE IF areaName \in ObjectPrototypeKeys
             THEN [threw |-> TRUE, groups |-> <<>>]
             ELSE reduceGroups(acc @@ (areaName :> <<head>>), Tail(list))

render(list, query) == reduceGroups(<<>>, filteredProjects(list, query))

GroupIdle ==
    /\ searchQuery = <<>>
    /\ groupedProjects = [threw |-> FALSE, groups |-> <<>>]

\* the list has been fetched and the view renders it with an empty search box
GroupInit ==
    /\ projects \in FetchedLists
    /\ searchQuery = <<>>
    /\ groupedProjects = render(projects, <<>>)

\* line 214: typing in the search box, and the render that follows
setSearchQuery ==
    \E q \in SearchQueries :
        /\ q # searchQuery
        /\ searchQuery' = q
        /\ groupedProjects' = render(projects, q)
        /\ UNCHANGED projects

\* ================================== Projects: the dialogs and ProjectModal
\* the ids the backend has given the listed projects: `id: number`, 0 included
ListIds == {0, 1}
\* a project as the backend sends it for the list
ListProject(i) ==
    [id |-> Some(i), name |-> "P", description |-> "", area_id |-> Undefined,
     active |-> TRUE, pin_to_sidebar |-> FALSE]

\* part_000 lines 23-29: the form of a modal opened without a project
EmptyForm ==
    [id |-> Undefined, name |-> "", description |-> "", area_id |-> Undefined,
     active |-> TRUE, pin_to_sidebar |-> FALSE]

\* the inputs of the form (part_000 lines 126-194): the name of each and the
\* values it can send; the name input is `required`
FieldInputs ==
    ({"name"} \X {"P", "Q"}) \cup ({"description"} \X {"", "d"})
      \cup ({"area_id"} \X {Some(""), Some("1")}) \cup ({"active"} \X {TRUE, FALSE})

\* a handler that forgets `...prev`
handleChangeDropsPrev(prev, name, value) == [EmptyForm EXCEPT ![name] = value]

\* part_000 lines 81-87: setFormData((prev) => ({ ...prev, [name]: value }))
handleChange(prev, name, value) == [prev EXCEPT ![name] = value]

\* part_000 line 22: useState(project || {...})
initialFormData(prop) == IF prop = Undefined THEN EmptyForm ELSE Get(prop)

\* the backend's list, as the array useFetchProjects yields (by id)
RECURSIVE ProjectList(_, _)
ProjectList(server, ids) ==
    IF ids = {} THEN <<>>
    ELSE LET i == CHOOSE x \in ids : \A y \in ids : x <= y
         IN  <<server[i]>> \o ProjectList(server, ids \ {i})

NoTimers == [live |-> 0, stale |-> 0]
\* the modal unmounts: its pending timers stay and will still call onClose
Unmounted(timers) == [live |-> 0, stale |-> timers.live + timers.stale]

ListIdle ==
    /\ isProjectModalOpen = FALSE
    /\ projectToEdit = Undefined
    /\ projectToDelete = Undefined
    /\ isConfirmDialogOpen = FALSE
    /\ activeDropdown = Undefined
    /\ modal = Undefined
    /\ closeTimers = NoTimers
    /\ saves = EmptyBag
    /\ deleting = EmptyBag
    /\ failures = {}
    /\ actCount = 0

NoProjects == projects = <<>>

\* the list view once the projects have been fetched
ListInit ==
    /\ projects = ProjectList([i \in ListIds |-> ListProject(i)], ListIds)
    /\ isProjectModalOpen = FALSE
    /\ projectToEdit = Undefined
    /\ projectToDelete = Undefined
    /\ isConfirmDialogOpen = FALSE
    /\ activeDropdown = Undefined
    /\ modal = Undefined
    /\ closeTimers = NoTimers
    /\ saves = EmptyBag
    /\ deleting = EmptyBag
    /\ failures = {}
    /\ actCount = 0

\* the overlay of an open modal (part_000 line 109) covers the grid
GridClickable == ~isProjectModalOpen

\* lines 259-265: the ellipsis button of a card
ToggleDropdown ==
    \E i \in DOMAIN projects :
        /\ GridClickable
        /\ activeDropdown' = IF activeDropdown = projects[i].id THEN Undefined
                             ELSE projects[i].id
        /\ UNCHANGED <<projects, isProjectModalOpen, projectToEdit, projectToDelete,
                       isConfirmDialogOpen, modal, closeTimers, saves, deleting,
                       failures, actCount>>

\* lines 79-82 from the Edit entry of the open dropdown; the modal mounts
\* (line 316) and its formData starts as the project (part_000 line 22)
handleEditProject ==
    \E i \in DOMAIN projects :
        /\ GridClickable
        /\ activeDropdown = projects[i].id
        /\ projectToEdit' = Some(projects[i])
        /\ isProjectModalOpen' = TRUE
        /\ modal' = Some([formData |-> initialFormData(Some(projects[i])),
                          isClosing |-> FALSE,
                          openedWith |-> Some(projects[i])])
        /\ UNCHANGED <<projects, projectToDelete, isConfirmDialogOpen, activeDropdown,
                       closeTimers, saves, deleting, failures, actCount>>

\* lines 279-283: the Delete entry of the open dropdown
AskDelete ==
    \E i \in DOMAIN projects :
        /\ GridClickable
        /\ activeDropdown = projects[i].id
        /\ projectToDelete' = Some(projects[i])
        /\ isConfirmDialogOpen' = TRUE
        /\ activeDropdown' = Undefined
        /\ UNCHANGED <<projects, isProjectModalOpen, projectToEdit, modal, closeTimers,
                       saves, deleting, failures, actCount>>

\* line 335
CancelDelete ==
    /\ isConfirmDialogOpen
    /\ isConfirmDialogOpen' = FALSE
    /\ UNCHANGED <<projects, isProjectModalOpen, projectToEdit, projectToDelete,
                   activeDropdown, modal, closeTimers, saves, deleting, failures,
                   actCount>>

\* lines 84-86: onConfirm, up to the await
handleDeleteProject ==
    /\ isConfirmDialogOpen
    /\ projectToDelete # Undefined
    /\ actCount < MaxActs
    /\ actCount' = actCount + 1
    /\ deleting' = deleting (+) SetToBag({Get(projectToDelete).id})
    /\ UNCHANGED <<projects, isProjectModalOpen, projectToEdit, projectToDelete,
                   isConfirmDialogOpen, activeDropdown, modal, closeTimers, saves,
                   failures>>

\* part_000 lines 74-88
ModalChange ==
    \E input \in FieldInputs :
        /\ modal # Undefined
        /\ actCount < MaxActs
        /\ actCount' = actCount + 1
        /\ Get(modal).formData[input[1]] # input[2]
        /\ modal' = Some([Get(modal) EXCEPT
                            !.formData = handleChange(@, input[1], input[2])])
        /\ UNCHANGED <<projects, isProjectModalOpen, projectToEdit, projectToDelete,
                       isConfirmDialogOpen, activeDropdown, closeTimers, saves, deleting,
                       failures>>

\* part_000 lines 96-102, up to the timer: Cancel, Escape or a click outside
handleClose ==
    /\ modal # Undefined
    /\ actCount < MaxActs
    /\ actCount' = actCount + 1
    /\ modal' = Some([Get(modal) EXCEPT !.isClosing = TRUE])
    /\ closeTimers' = [closeTimers EXCEPT !.live = @ + 1]
    /\ UNCHANGED <<projects, isProjectModalOpen, projectToEdit, projectToDelete,
                   isConfirmDialogOpen, activeDropdown, saves, deleting, failures>>

\* lines 69-74: which backend call handleSaveProject makes
saveCall(p) == IF Falsy(p.id) THEN "createProject" ELSE "updateProject"

\* part_000 lines 90-94: onSave(formData), which is handleSaveProject up to
\* its await (lines 69-74), then handleClose()
handleSubmit ==
    /\ modal # Undefined
    /\ actCount < MaxActs
    /\ actCount' = actCount + 1
    /\ saves' = saves (+) SetToBag({[call |-> saveCall(Get(modal).formData),
                                     project |-> Get(modal).formData,
                                     openedWith |-> Get(modal).openedWith]})
    /\ modal' = Some([Get(modal) EXCEPT !.isClosing = TRUE])
    /\ closeTimers' = [closeTimers EXCEPT !.live = @ + 1]
    /\ UNCHANGED <<projects, isProjectModalOpen, projectToEdit, projectToDelete,
                   isConfirmDialogOpen, activeDropdown, deleting, failures>>

\* part_000 lines 98-101 with the onClose of lines 319-322: the timer of any
\* handleClose, of the mounted modal or of one long unmounted
CloseTimerFires ==
    \E which \in {"live", "stale"} :
        /\ closeTimers[which] > 0
        /\ isProjectModalOpen' = FALSE
        /\ projectToEdit' = Undefined
        /\ modal' = Undefined
        /\ closeTimers' = Unmounted([closeTimers EXCEPT ![which] = @ - 1])
        /\ UNCHANGED <<projects, projectToDelete, isConfirmDialogOpen, activeDropdown,
                       saves, deleting, failures, actCount>>

\* createProject, updateProject and deleteProject of the data context settle
\* one way or the other
Settlements == {"resolved", "rejected"}

\* a rejection of an awaited call in a handler without try/catch leaves the
\* handler as an unhandled rejection; nothing is shown
escaped(handler) == [handler |-> handler, escaped |-> TRUE, message |-> Undefined]

\* the list after mutate() has fetched it again: the backend has stored the
\* update, or has given the created project an id of its own
listAfterSave(list, s) ==
    IF s.call = "updateProject"
    THEN [i \in DOMAIN list |-> IF list[i].id = s.project.id THEN s.project ELSE list[i]]
    ELSE Append(list, [s.project EXCEPT !.id = Some(Len(list) + Cardinality(ListIds) + 1)])

listAfterDelete(list, id) == SelectSeq(list, LAMBDA p : p.id # id)

\* lines 71-76, from the await on
SaveSettles ==
    \E s \in BagToSet(saves), how \in Settlements :
        /\ saves' = saves (-) SetToBag({s})
        /\ IF how = "resolved"
           THEN /\ projects' = listAfterSave(projects, s)
                /\ isProjectModalOpen' = FALSE
                /\ modal' = Undefined
                /\ closeTimers' = Unmounted(closeTimers)
                /\ UNCHANGED failures
           ELSE /\ failures' = failures \cup {escaped("handleSaveProject")}
                /\ UNCHANGED <<projects, isProjectModalOpen, modal, closeTimers>>
        /\ UNCHANGED <<projectToEdit, projectToDelete, isConfirmDialogOpen,
                       activeDropdown, deleting, actCount>>

\* lines 86-89, from the await on
DeleteSettlesInList ==
    \E id \in BagToSet(deleting), how \in Settlements :
        /\ deleting' = deleting (-) SetToBag({id})
        /\ IF how = "resolved"
           THEN /\ projects' = listAfterDelete(projects, id)
                /\ isConfirmDialogOpen' = FALSE
                /\ projectToDelete' = Undefined
                /\ UNCHANGED failures
           ELSE /\ failures' = failures \cup {escaped("handleDeleteProject")}
                /\ UNCHANGED <<projects, isConfirmDialogOpen, projectToDelete>>
        /\ UNCHANGED <<isProjectModalOpen, projectToEdit, activeDropdown, modal,
                       closeTimers, saves, actCount>>

\* ============================== ProjectDetails: the ProjectModal it mounts
\* lines 576-582: the modal is rendered with the view, open or not, so its
\* formData and its timers live as long as the view does
HostIdle ==
    /\ isModalOpen = FALSE
    /\ formData = EmptyForm
    /\ isClosing = FALSE
    /\ hostTimers = EmptyBag
    /\ submits = <<>>
    /\ closures = {}
    /\ hostActs = 0

\* the view once project 1 has been fetched: the modal mounts with it
HostInit ==
    /\ routeId = 1
    /\ fetches = EmptyBag
    /\ project = Some(ListProject(1))
    /\ tasks = <<>>
    /\ loading = FALSE
    /\ error = Undefined
    /\ creates = EmptyBag
    /\ updates = EmptyBag
    /\ deletes = EmptyBag
    /\ serverTasks = {}
    /\ nextTaskId = 1
    /\ taskName = ""
    /\ toasts = {}
    /\ opCount = 0
    /\ navCount = 0
    /\ nFailed = 0
    /\ isModalOpen = FALSE
    /\ formData = initialFormData(project)
    /\ isClosing = FALSE
    /\ hostTimers = EmptyBag
    /\ submits = <<>>
    /\ closures = {}
    /\ hostActs = 0

hostRest == <<routeId, fetches, tasks, loading, error, creates, updates, deletes,
              serverTasks, nextTaskId, taskName, toasts, opCount, navCount, nFailed>>

\* what a step that closes an open modal writes down
closed(by, status) ==
    IF isModalOpen THEN closures \cup {[by |-> by, status |-> status]} ELSE closures

\* lines 466-468, from the pencil button, which the overlay of an open modal covers
HostEditProject ==
    /\ ~isModalOpen
    /\ isModalOpen' = TRUE
    /\ UNCHANGED <<project, formData, isClosing, hostTimers, submits, closures,
                   hostActs, hostRest>>

\* part_000 lines 74-88
HostChange ==
    \E input \in FieldInputs :
        /\ isModalOpen
        /\ hostActs < MaxHostActs
        /\ hostActs' = hostActs + 1
        /\ formData[input[1]] # input[2]
        /\ formData' = handleChange(formData, input[1], input[2])
        /\ UNCHANGED <<project, isModalOpen, isClosing, hostTimers, submits, closures,
                       hostRest>>

\* part_000 lines 96-102, up to the timer: Cancel, Escape or a click outside
HostClose ==
    /\ isModalOpen
    /\ hostActs < MaxHostActs
    /\ hostActs' = hostActs + 1
    /\ isClosing' = TRUE
    /\ hostTimers' = hostTimers (+) SetToBag({[origin |-> "dismiss", submit |-> 0]})
    /\ UNCHANGED <<project, isModalOpen, formData, submits, closures, hostRest>>

\* part_000 lines 90-94: onSave(formData), which is handleSaveProject up to
\* its await (lines 471-475), then handleClose()
HostSubmit ==
    /\ isModalOpen
    /\ hostActs < MaxHostActs
    /\ hostActs' = hostActs + 1
    /\ submits' = Append(submits, [project |-> formData, status |-> "pending"])
    /\ isClosing' = TRUE
    /\ hostTimers' = hostTimers (+)
                       SetToBag({[origin |-> "submit", submit |-> Len(submits) + 1]})
    /\ UNCHANGED <<project, isModalOpen, formData, closures, hostRest>>

\* part_000 lines 98-101 with the onClose of line 578
HostTimerFires ==
    \E t \in BagToSet(hostTimers) :
        /\ hostTimers' = hostTimers (-) SetToBag({t})
        /\ isModalOpen' = FALSE
        /\ isClosing' = FALSE
        /\ closures' = closed(t.origin,
                              IF t.origin = "submit" THEN submits[t.submit].status
                              ELSE "none")
        /\ UNCHANGED <<project, formData, submits, hostActs, hostRest>>

\* lines 474-480, from the await on; a new `project` prop runs the effect of
\* part_000 lines 68-72
HostSaveSettles ==
    \E n \in DOMAIN submits, how \in Settlements :
        /\ submits[n].status = "pending"
        /\ submits' = [submits EXCEPT ![n].status = how]
        /\ IF how = "resolved"
           THEN /\ project' = Some(submits[n].project)
                /\ isModalOpen' = FALSE
                /\ formData' = submits[n].project
                /\ closures' = closed("saved", "resolved")
           ELSE UNCHANGED <<project, isModalOpen, formData, closures>>
        /\ UNCHANGED <<isClosing, hostTimers, hostActs, hostRest>>

\* ============================================================ specifications
DetailNext ==
    \/ RouteChange /\ UNCHANGED exceptDetail
    \/ FetchSettles /\ UNCHANGED exceptDetail
    \/ HandleInputChange /\ UNCHANGED exceptDetail
    \/ NewTaskEnter /\ UNCHANGED exceptDetail
    \/ TaskListCreate /\ UNCHANGED exceptDetail
    \/ CreateSettles /\ UNCHANGED exceptDetail
    \/ StartUpdate /\ UNCHANGED exceptDetail
    \/ UpdateSettles /\ UNCHANGED exceptDetail
    \/ StartDelete /\ UNCHANGED exceptDetail
    \/ DeleteSettles /\ UNCHANGED exceptDetail

InitDetails ==
    DetailInit /\ PctIdle /\ FilterIdle /\ GroupIdle /\ NoProjects /\ ListIdle /\ HostIdle

SpecDetails == InitDetails /\ [][DetailNext]_vars

FetchNext ==
    \/ Navigate /\ UNCHANGED <<exceptFetch, settled>>
    \/ RecordedFetchSettles /\ UNCHANGED exceptFetch

SpecFetch == InitDetails /\ [][FetchNext]_vars

HostNext ==
    \/ HostEditProject /\ UNCHANGED exceptHost
    \/ HostChange /\ UNCHANGED exceptHost
    \/ HostClose /\ UNCHANGED exceptHost
    \/ HostSubmit /\ UNCHANGED exceptHost
    \/ HostTimerFires /\ UNCHANGED exceptHost
    \/ HostSaveSettles /\ UNCHANGED exceptHost

InitHost ==
    HostInit /\ settled = <<>> /\ PctIdle /\ FilterIdle /\ GroupIdle /\ NoProjects /\ ListIdle

SpecHost == InitHost /\ [][HostNext]_vars

PctNext ==
    \/ SetTaskStatusCounts /\ UNCHANGED exceptPct
    \/ RenderCompletion /\ UNCHANGED exceptPct

InitPct ==
    PctInit /\ DetailIdle /\ FilterIdle /\ GroupIdle /\ NoProjects /\ ListIdle /\ HostIdle

SpecPct == InitPct /\ [][PctNext]_vars

FilterNext ==
    \/ handleActiveFilterChange /\ UNCHANGED exceptFilter
    \/ handleAreaFilterChange /\ UNCHANGED exceptFilter

InitFilter ==
    FilterInit /\ PctIdle /\ DetailIdle /\ GroupIdle /\ NoProjects /\ ListIdle /\ HostIdle

SpecFilter == InitFilter /\ [][FilterNext]_vars

GroupNext == setSearchQuery /\ UNCHANGED exceptGroup

InitGroup ==
    GroupInit /\ PctIdle /\ DetailIdle /\ FilterIdle /\ ListIdle /\ HostIdle

SpecGroup == InitGroup /\ [][GroupNext]_vars

ListNext ==
    \/ ToggleDropdown /\ UNCHANGED exceptList
    \/ handleEditProject /\ UNCHANGED exceptList
    \/ AskDelete /\ UNCHANGED exceptList
    \/ CancelDelete /\ UNCHANGED exceptList
    \/ handleDeleteProject /\ UNCHANGED exceptList
    \/ ModalChange /\ UNCHANGED exceptList
    \/ handleClose /\ UNCHANGED exceptList
    \/ handleSubmit /\ UNCHANGED exceptList
    \/ CloseTimerFires /\ UNCHANGED exceptList
    \/ SaveSettles /\ UNCHANGED exceptList
    \/ DeleteSettlesInList /\ UNCHANGED exceptList

InitList ==
    ListInit /\ PctIdle /\ DetailIdle /\ FilterIdle /\ GroupIdle /\ HostIdle

SpecList == InitList /\ [][ListNext]_vars

\* ==================================================================== claims

\* C1: for every project and every task-status record the completion bar shows
\* 100 * done / (done + not_started + in_progress) rounded to the nearest
\* integer, a missing count (a missing done count too) counting as 0, and 0
\* when the total is 0 or the project has no id; always an integer in 0..100.
C1_CompletionIsRoundedRatio ==
    LET c == CountsOf(taskStatusCounts, IF pctProject = Undefined THEN 0 ELSE Get(pctProject))
        done == OrZero(c.done)
        total == done + OrZero(c.not_started) + OrZero(c.in_progress)
        claimed == IF pctProject = Undefined \/ total = 0 THEN 0
                   ELSE MathRound100(done, total)
    IN  /\ pctResult = Number(claimed)
        /\ pctResult.value \in 0..100

\* ------------------------------------------------------------ ProjectDetails
NoTaskCallInFlight ==
    creates = EmptyBag /\ updates = EmptyBag /\ deletes = EmptyBag

LocalIds == {tasks[i].id : i \in DOMAIN tasks}

\* C2: a creation started from NewTask that fails (rejection, non-OK answer,
\* missing project id) shows the error toast and never the success toast; the
\* success toast is shown only when the task was created.
C2_SuccessToastOnlyWhenCreated ==
    \A t \in toasts : (t.toast = "success") <=> t.created

\* C3: once every create, update and delete has been acknowledged by the server
\* (none failed, none in flight; the route never changed), the local list holds
\* exactly the tasks the server holds for the project, each once.
C3_LocalListMirrorsServer ==
    (/\ NoTaskCallInFlight
     /\ fetches = EmptyBag
     /\ nFailed = 0
     /\ navCount = 0
     /\ View = "project"
     /\ ~ProjectIdMissing(project))
    => /\ LocalIds = {Some(s.id) : s \in TasksOfProject(serverTasks, Get(Get(project).id))}
       /\ Cardinality(LocalIds) = Len(tasks)

C6_LoadingWhileFetching ==
    CopiesIn(routeId, fetches) > 0 => View = "loading"

\* C8: every task-creation request carries the id of the project loaded when
\* it was sent, whatever project_id the caller handed in, and none is sent
\* while the loaded project has no id.
C8_CreateCarriesLoadedProject ==
    \A c \in BagToSet(creates) :
        /\ c.body.project_id = c.loaded
        /\ ~Falsy(c.loaded)

\* C8's case: a request in flight whose caller handed in another project_id
C8_Witness ==
    \E c \in BagToSet(creates) : c.given # Undefined /\ c.given # c.loaded

\* ---------------------------------------------------- Projects: the filters
\* the pairs of every key but one, in order
OtherParams(params, key) == SelectSeq(params, LAMBDA p : p.key # key)
ValuesOf(params, key) ==
    LET own == SelectSeq(params, LAMBDA p : p.key = key)
    IN  [i \in DOMAIN own |-> own[i].value]

\* C7: after the status filter changes to v the query string holds active = v
\* (no active pair for "all"), after the area filter changes to a it holds
\* area_id = a (no area_id pair for ""); every other pair keeps its value, and
\* the view reads back the chosen value and the other filter's previous value.
C7_FilterChangeUpdatesOnlyItsParam ==
    LET c == lastFilterChange
        cleared == IF c.filter = "active" THEN "all" ELSE ""
    IN  c.filter # "none" =>
          /\ ValuesOf(searchParams, c.filter) = IF c.value = cleared THEN <<>> ELSE <<c.value>>
          /\ OtherParams(searchParams, c.filter) = OtherParams(c.before, c.filter)
          /\ IF c.filter = "active"
             THEN /\ activeFilter(searchParams) = c.value
                  /\ areaFilter(searchParams) = areaFilter(c.before)
             ELSE /\ areaFilter(searchParams) = c.value
                  /\ activeFilter(searchParams) = activeFilter(c.before)

\* C7's case: a filter was set over a query string that held the key twice
\* and other pairs besides
C7_Witness ==
    /\ lastFilterChange.filter = "active"
    /\ lastFilterChange.value = "false"
    /\ Len(ValuesOf(lastFilterChange.before, "active")) = 2
    /\ OtherParams(searchParams, "active") # <<>>

\* --------------------------------------------------- Projects: the grouping
EqIgnoreCase(c, d) == toLowerCase(<<c>>) = toLowerCase(<<d>>)
ContainsIgnoreCase(name, query) ==
    \E i \in 0..(Len(name) - Len(query)) :
        \A k \in 1..Len(query) : EqIgnoreCase(name[i + k], query[k])
GroupNames == AreaNames \cup {"Uncategorized"}
Displayed(g) ==
    IF g \in DOMAIN groupedProjects.groups THEN groupedProjects.groups[g] ELSE <<>>

\* C10: every project whose name contains the search query, ignoring case, is
\* displayed in exactly one group, the one named after its area (Uncategorized
\* without one), in its original relative order; no other project is displayed.
C10_GroupsHoldExactlyTheMatches ==
    /\ DOMAIN groupedProjects.groups \subseteq GroupNames
    /\ \A g \in GroupNames :
          Displayed(g) = SelectSeq(projects, LAMBDA p :
                             ContainsIgnoreCase(p.name, searchQuery) /\ areaNameOf(p) = g)

\* ------------------------------------- Projects: the dialogs and the modal
\* C5: every failed project mutation of the list view (save, delete) is caught
\* where it is called, so that no rejection leaves the handler unhandled, and
\* the user is shown a toast or an inline error message.
C5_FailuresCaughtAndShown ==
    \A f \in failures : ~f.escaped /\ f.message # Undefined

\* C9: whatever fields were edited, the project a submit hands to onSave has
\* the id of the project the modal was opened with (none when it was opened
\* without one); the edits touch name, description, area_id and active only.
C9_SubmitKeepsId ==
    /\ \A s \in BagToSet(saves) :
          /\ s.project.id = initialFormData(s.openedWith).id
          /\ s.project.pin_to_sidebar = initialFormData(s.openedWith).pin_to_sidebar
    /\ modal # Undefined =>
          Get(modal).formData.id = initialFormData(Get(modal).openedWith).id

\* C9's case: a project was submitted after two of its fields were edited
C9_Witness ==
    \E s \in BagToSet(saves) :
        /\ s.openedWith # Undefined
        /\ s.project.id # Undefined
        /\ s.project.name # Get(s.openedWith).name
        /\ s.project.active # Get(s.openedWith).active

LastSettled == settled[Len(settled)]

\* C12: once a fetch has settled the view is no longer loading; after a 2xx
\* answer it shows the fetched project and its tasks, after any failure (a
\* non-2xx answer, an unparsable body, a rejection) an error message.
C12_SettledFetchIsShown ==
    settled # <<>> =>
        /\ View # "loading"
        /\ IF LastSettled.answer = "ok"
           THEN /\ View = "project"
                /\ project = Some(FetchedProject(LastSettled.id, LastSettled.hasId))
                /\ tasks = FetchedTasks(LastSettled.id)
           ELSE View = "error"

\* C13: once every fetch has settled, all of them with a 2xx answer, the
\* project and the tasks displayed are those fetched for the current route id,
\* in whatever order the answers came.
C13_CurrentRouteIsShown ==
    (/\ settled # <<>>
     /\ fetches = EmptyBag
     /\ \A i \in DOMAIN settled : settled[i].answer = "ok" /\ settled[i].hasId)
    => /\ View = "project"
       /\ project = Some(FetchedProject(routeId, TRUE))
       /\ tasks = FetchedTasks(routeId)

\* ------------------------------------------- ProjectDetails: the edit modal
\* C14: a submit closes the modal of the detail view only once updateProject
\* has resolved (and the saved project is displayed); while the call is
\* pending, or after it has rejected, the submit leaves the modal open.
C14_SubmitClosesOnlyWhenSaved ==
    \A c \in closures : c.by = "submit" => c.status = "resolved"

\* C15: whenever the modal opens, its fields are the current values of the
\* project, whatever was opened, edited, cancelled or saved before.
C15_OpensWithCurrentProject ==
    [][(~isModalOpen /\ isModalOpen') => formData' = Get(project')]_vars

\* ------------------------------------------------ Projects: the close timer
\* C16: in the list view, with no save pending, a modal the user has opened
\* and has not cancelled, dismissed or submitted stays open with its project
\* to edit still set: no close timer started before it was opened closes it.
C16_OpenModalStaysOpen ==
    [][(/\ isProjectModalOpen
        /\ modal # Undefined
        /\ ~Get(modal).isClosing
        /\ saves = EmptyBag)
       => (/\ isProjectModalOpen'
           /\ modal' # Undefined
           /\ projectToEdit' = projectToEdit)]_vars

====
